---- MODULE Spec2Model ----
(***************************************************************************)
(* Model of SNP100DataLoader (src/data_loader2.py): one get_data call as a *)
(* state machine.  Dates are day ordinals (days since 1970-01-01), cells   *)
(* of a DataFrame are rationals <<num, den>> and NaN is the empty tuple.   *)
(* The market-data collaborator (vbt.YFData.download) is the environment:  *)
(* each download either raises or yields a Close series over trading days. *)
(***************************************************************************)
EXTENDS Integers, Sequences, FiniteSets, TLC

\* ------------------------------------------------------------------ bounds
\* Number of universe tickers kept from DEFAULT_TICKERS.
NumTickers == 2
\* A downloaded series may miss up to MaxTrim leading/trailing trading days.
MaxTrim == 1
\* Integer lookbacks 0..SmallLookback are tried as start_input (besides one
\* lookback long enough for the 20-row window).
SmallLookback == 2

\* --------------------------------------------------------- class constants
DEFAULT_TICKERS == <<"NVDA", "AAPL", "MSFT", "AMZN", "GOOGL", "GOOG">>

EXCLUDED_TICKERS == {"ARM", "ABNB", "CEG", "DASH", "GEHC", "GFS"}

TREASURY_BOND == "^TYX"

SP100_INDEX == "^OEX"

\* pd.Timestamp('2024-11-16') as a day ordinal (a Saturday).
END_DATE == 20043

\* periods of the pct_change call, and the suffix of the derived column.
Window == 20

PCT_COLUMN == "^TYX_pct_change_20"

\* -------------------------------------------------------------- calendar
\* datetime.weekday(): Monday = 0 ... Sunday = 6 (1970-01-01 was a Thursday).
weekday(d) == (d + 3) % 7

\* Day ordinal of the civil date y-m-d, as pd.Timestamp('YYYY-MM-DD') parses it.
days_from_civil(y, m, d) ==
    LET yy  == IF m <= 2 THEN y - 1 ELSE y
        era == yy \div 400
        yoe == yy - era * 400
        mp  == (m + 9) % 12
        doy == (153 * mp + 2) \div 5 + d - 1
        doe == yoe * 365 + yoe \div 4 - yoe \div 100 + doy
    IN  era * 146097 + doe - 719468

\* pandas BusinessDay._adjust_ndays(wday, weeks) for offset BDay(n).
adjust_ndays(n, wday, weeks) ==
    LET n1 == IF n <= 0 /\ wday > 4 THEN n + 1 ELSE n
        n2 == n1 - 5 * weeks
    IN  IF n2 = 0 /\ wday > 4 THEN 4 - wday
        ELSE IF wday > 4 THEN (7 - wday) + (n2 - 1)
        ELSE IF wday + n2 <= 4 THEN n2
        ELSE n2 + 2

\* pandas BusinessDay._apply: other + BDay(n).
BDay_apply(n, other) ==
    LET weeks == n \div 5
    IN  other + 7 * weeks + adjust_ndays(n, weekday(other), weeks)

\* other - BDay(n) is (-BDay(n)) + other, i.e. BDay(-n) applied to other.
minus_BDay(other, n) == BDay_apply(0 - n, other)

\* ------------------------------------------------------------ start_input
\* A start_input value: its Python type and its content as a tuple of integers.
\*   "str"        <<y, m, d>> for the text 'YYYY-MM-DD', <<>> for unparseable text
\*   "Timestamp"  <<ordinal>>
\*   "int"        <<n>>
\*   "float"      <<num, den>>
\*   "NoneType"   <<>>
LookbackInputs == (0..SmallLookback) \cup {Window + 2}

StartInputs ==
    {[type |-> "int", value |-> <<n>>] : n \in LookbackInputs}
    \cup {[type |-> "str", value |-> v] : v \in {<<2024, 11, 15>>, <<2024, 11, 18>>, <<>>}}
    \cup {[type |-> "Timestamp", value |-> <<days_from_civil(2024, 11, 14)>>]}
    \cup {[type |-> "float", value |-> <<7, 2>>], [type |-> "NoneType", value |-> <<>>]}

\* pd.Timestamp(start_input) for a str or Timestamp argument.
Timestamp(start_input) ==
    IF start_input.type = "str"
    THEN IF Len(start_input.value) = 3
         THEN [error |-> "",
               date |-> days_from_civil(start_input.value[1], start_input.value[2],
                                        start_input.value[3])]
         ELSE [error |-> "ValueError", date |-> 0]
    ELSE [error |-> "", date |-> start_input.value[1]]

\* A plausible slip: the else branch falls back to END_DATE instead of raising.
get_start_date_lenient(start_input) ==
    IF start_input.type \in {"str", "Timestamp"} THEN Timestamp(start_input)
    ELSE IF start_input.type = "int"
    THEN [error |-> "", date |-> minus_BDay(END_DATE, start_input.value[1])]
    ELSE [error |-> "", date |-> END_DATE]

get_start_date(start_input) ==
    IF start_input.type \in {"str", "Timestamp"} THEN Timestamp(start_input)
    ELSE IF start_input.type = "int"
    THEN [error |-> "", date |-> minus_BDay(END_DATE, start_input.value[1])]
    ELSE [error |-> "ValueError", date |-> 0]

\* ------------------------------------------------------------- DataFrame
NaN == <<>>

Num(v) == <<v, 1>>

None == [kind |-> "None"]

Range(s) == {s[k] : k \in 1..Len(s)}

\* A DataFrame: its index (dates, in row order), its columns (in order) and
\* its cells, a function on Range(index) \X Range(columns).
Frame(index, columns, cell) ==
    [kind |-> "DataFrame", index |-> index, columns |-> columns, cell |-> cell]

\* pd.DataFrame()
EmptyFrame == Frame(<<>>, <<>>, [p \in {} |-> NaN])

IsFrame(df) == df.kind = "DataFrame"

\* DataFrame.empty: some axis has length 0.
empty(df) == Len(df.index) = 0 \/ Len(df.columns) = 0

Dates(df) == Range(df.index)

Ascending(s) == \A a, b \in 1..Len(s) : a < b => s[a] < s[b]

\* DataFrame.sort_index(): rows in ascending date order.
sort_index(df) ==
    Frame(SortSeq(df.index, LAMBDA a, b : a < b), df.columns, df.cell)

JoinCell(df, other, p) ==
    IF p[2] \in Range(df.columns)
    THEN IF p[1] \in Dates(df) THEN df.cell[p] ELSE NaN
    ELSE IF p[1] \in Dates(other) THEN other.cell[p] ELSE NaN

\* The elements of a finite set of integers in ascending order.
SortedSeq(S) ==
    IF S = {} THEN <<>>
    ELSE LET lo == CHOOSE x \in S : \A y \in S : x <= y
             hi == CHOOSE x \in S : \A y \in S : y <= x
         IN  SelectSeq([k \in 1..(hi - lo + 1) |-> lo + k - 1], LAMBDA x : x \in S)

\* Index of df.join(other, how=how): the sorted union of the two indexes for
\* 'outer', the rows of df that other also has (in df's order) for 'inner'.
JoinIndex(df, other, how) ==
    IF how = "outer"
    THEN SortedSeq(Dates(df) \cup Dates(other))
    ELSE SelectSeq(df.index, LAMBDA d : d \in Dates(other))

\* A plausible slip: missing cells of a join are filled with zero.
join_zero_fill(df, other, how) ==
    LET index == JoinIndex(df, other, how)
        columns == df.columns \o other.columns
    IN  Frame(index, columns,
              [p \in Range(index) \X Range(columns) |->
                 IF JoinCell(df, other, p) = NaN THEN Num(0) ELSE JoinCell(df, other, p)])

\* A plausible slip: every join keeps the union of the dates.
join_always_outer(df, other, how) ==
    LET index == JoinIndex(df, other, "outer")
        columns == df.columns \o other.columns
    IN  Frame(index, columns,
              [p \in Range(index) \X Range(columns) |-> JoinCell(df, other, p)])

\* df.join(other, how=how) on the date index; the columns of the two frames
\* are disjoint (the universe symbols are unique and differ from the indices).
join(df, other, how) ==
    LET index == JoinIndex(df, other, how)
        columns == df.columns \o other.columns
    IN  Frame(index, columns,
              [p \in Range(index) \X Range(columns) |-> JoinCell(df, other, p)])

\* df[column] as the sequence of its values in row order.
Column(df, column) == [k \in 1..Len(df.index) |-> df.cell[<<df.index[k], column>>]]

\* df[name] = values (a new column, values given in row order).
with_column(df, name, values) ==
    Frame(df.index, Append(df.columns, name),
          [p \in Range(df.index) \X (Range(df.columns) \cup {name}) |->
             IF p[2] = name
             THEN values[CHOOSE k \in 1..Len(df.index) : df.index[k] = p[1]]
             ELSE df.cell[p]])

\* Series.ffill(): a missing value takes the last known value above it.
ffill(values) ==
    [k \in 1..Len(values) |->
       LET known == {j \in 1..k : values[j] # NaN}
       IN  IF known = {} THEN NaN
           ELSE values[CHOOSE j \in known : \A h \in known : h <= j]]

\* a / b - 1 on rationals <<num, den>>; NaN propagates.
ratio_minus_one(a, b) ==
    IF a = NaN \/ b = NaN THEN NaN
    ELSE <<a[1] * b[2] - a[2] * b[1], a[2] * b[1]>>

\* A plausible slip: the rows without a prior window hold zero.
pct_change_zero_head(values, periods) ==
    LET filled == ffill(values)
    IN  [k \in 1..Len(values) |->
           IF k > periods THEN ratio_minus_one(filled[k], filled[k - periods])
           ELSE Num(0)]

\* Series.pct_change(periods): filled / filled.shift(periods) - 1 with the
\* default fill_method='pad'; the first `periods` rows have no shifted value.
pct_change(values, periods) ==
    LET filled == ffill(values)
    IN  [k \in 1..Len(values) |->
           IF k > periods THEN ratio_minus_one(filled[k], filled[k - periods])
           ELSE NaN]

\* ------------------------------------------------ market-data collaborator
\* self.tickers: the default list (cut to NumTickers) without the excluded ones.
tickers ==
    SelectSeq(SubSeq(DEFAULT_TICKERS, 1, NumTickers), LAMBDA t : t \notin EXCLUDED_TICKERS)

Symbols == Range(tickers) \cup {TREASURY_BOND, SP100_INDEX}

\* Trading days the collaborator can have data for: weekdays in [start, end).
TradingDays(start_date) ==
    SelectSeq([k \in 1..(END_DATE - start_date) |-> start_date + k - 1],
              LAMBDA d : weekday(d) < 5)

\* The closing price the collaborator reports for a symbol on a day: positive,
\* different for different symbols and varying from day to day.
ClosePrice(symbol, d) ==
    LET all == DEFAULT_TICKERS \o <<TREASURY_BOND, SP100_INDEX>>
        pos == CHOOSE k \in 1..Len(all) : all[k] = symbol
    IN  10 * pos + 1 + (((END_DATE - d) * (END_DATE - d)) % 7)

Exception == [kind |-> "Exception"]

\* What vbt.YFData.download(ticker, start=start_date, end=END_DATE).get("Close")
\* can evaluate to: an exception, or a Close series over the trading days of the
\* range that misses some leading and trailing days (possibly all of them).
YFData(ticker, start_date) ==
    LET days == TradingDays(start_date)
    IN  {Exception} \cup
        {Frame(SubSeq(days, 1 + t[1], Len(days) - t[2]), <<"Close">>,
               [p \in Range(SubSeq(days, 1 + t[1], Len(days) - t[2])) \X {"Close"} |->
                  Num(ClosePrice(ticker, p[1]))])
           : t \in {u \in (0..MaxTrim) \X (0..MaxTrim) : u[1] + u[2] <= MaxTrim}}

\* download_single_ticker with the collaborator's answer given: None on any
\* exception, otherwise the one-column frame with "Close" renamed to the ticker.
\* (The index is already at day granularity here, so line 72 keeps it.)
download_single_ticker(ticker, price_data) ==
    IF price_data.kind = "Exception" THEN None
    ELSE Frame(price_data.index, <<ticker>>,
               [p \in Range(price_data.index) \X {ticker} |->
                  price_data.cell[<<p[1], "Close">>]])

\* A plausible slip: the emptiness test is dropped and every fetched series is joined.
merge_ticker_always_join(df, ticker_data) ==
    IF ticker_data.kind # "None" THEN join(df, ticker_data, "outer") ELSE df

\* Body of the universe loop for a DataFrame df (lines 101-106).
merge_ticker(df, ticker_data) ==
    IF empty(df) THEN ticker_data
    ELSE IF ticker_data.kind # "None" THEN join(df, ticker_data, "outer")
    ELSE df

\* Lines 114-116: inner join of the treasury series, then the derived column.
merge_treasury(df, treasury_data) ==
    LET joined == join(df, treasury_data, "inner")
    IN  with_column(joined, PCT_COLUMN, pct_change(Column(joined, TREASURY_BOND), Window))

\* A plausible slip: the derived column is computed again after the last join.
merge_sp100_recompute(df, sp100_data) ==
    LET joined == join(df, sp100_data, "inner")
    IN  IF PCT_COLUMN \in Range(joined.columns)
        THEN Frame(joined.index, joined.columns,
                   [p \in Range(joined.index) \X Range(joined.columns) |->
                      IF p[2] = PCT_COLUMN
                      THEN pct_change(Column(joined, TREASURY_BOND), Window)[
                               CHOOSE k \in 1..Len(joined.index) : joined.index[k] = p[1]]
                      ELSE joined.cell[p]])
        ELSE joined

\* Line 121: inner join of the S&P 100 series.
merge_sp100(df, sp100_data) == join(df, sp100_data, "inner")

\* ------------------------------------------------------------------ state
VARIABLES
    start_input,      \* argument of get_data
    include_indices,  \* argument of get_data
    pc,               \* position of the call
    error,            \* the exception the call raised, "" if none
    start_date,       \* local start_date of get_data / load_all_data
    i,                \* position of the universe loop in self.tickers
    df,               \* local df of load_all_data
    fetched,          \* per symbol, what download_single_ticker returned
    requests,         \* the symbols handed to the collaborator, in order
    merge_log,        \* the last merge step: its symbol, and whether df was empty before it
    snap              \* dates of df after the universe loop; derived column as line 116 set it

vars == <<start_input, include_indices, pc, error, start_date, i, df, fetched,
          requests, merge_log, snap>>

Unfetched == [kind |-> "unfetched"]

NoMerge == [symbol |-> "", into_empty |-> FALSE]

Init ==
    /\ start_input \in StartInputs
    /\ include_indices \in BOOLEAN
    /\ pc = "RESOLVE"
    /\ error = ""
    /\ start_date = 0
    /\ i = 1
    /\ df = None
    /\ fetched = [s \in Symbols |-> Unfetched]
    /\ requests = <<>>
    /\ merge_log = NoMerge
    /\ snap = [universe |-> {}, pct |-> [d \in {} |-> NaN]]

\* get_data, line 144, when get_start_date returns; load_all_data line 96.
ResolveOk ==
    /\ pc = "RESOLVE"
    /\ get_start_date(start_input).error = ""
    /\ start_date' = get_start_date(start_input).date
    /\ df' = EmptyFrame
    /\ pc' = "FETCH_UNIVERSE"
    /\ UNCHANGED <<start_input, include_indices, error, i, fetched, requests, merge_log, snap>>

\* get_data, line 144, when get_start_date raises: the call ends with the error.
ResolveRaise ==
    /\ pc = "RESOLVE"
    /\ get_start_date(start_input).error # ""
    /\ error' = get_start_date(start_input).error
    /\ pc' = "raised"
    /\ UNCHANGED <<start_input, include_indices, start_date, i, df, fetched, requests,
                   merge_log, snap>>

\* End of one loop iteration: next ticker, or leave the loop (line 110).
NextTicker(table) ==
    /\ i' = i + 1
    /\ IF i = Len(tickers)
       THEN /\ pc' = IF include_indices THEN "FETCH_TREASURY" ELSE "FINALIZE"
            /\ snap' = [snap EXCEPT !.universe = IF IsFrame(table) THEN Dates(table) ELSE {}]
       ELSE /\ pc' = pc
            /\ snap' = snap

\* One iteration of the universe loop with df a DataFrame (lines 99-106).
FetchTicker ==
    /\ pc = "FETCH_UNIVERSE"
    /\ i <= Len(tickers)
    /\ IsFrame(df)
    /\ \E price_data \in YFData(tickers[i], start_date) :
         LET ticker_data == download_single_ticker(tickers[i], price_data)
             merged == merge_ticker(df, ticker_data)
         IN  /\ df' = merged
             /\ fetched' = [fetched EXCEPT ![tickers[i]] = ticker_data]
             /\ requests' = Append(requests, tickers[i])
             /\ merge_log' = IF ticker_data.kind # "None"
                             THEN [symbol |-> tickers[i], into_empty |-> empty(df)]
                             ELSE NoMerge
             /\ NextTicker(merged)
    /\ UNCHANGED <<start_input, include_indices, error, start_date>>

\* One iteration with df None: df.empty raises AttributeError before the
\* download is called; line 107 catches it and the loop goes on.
SkipTicker ==
    /\ pc = "FETCH_UNIVERSE"
    /\ i <= Len(tickers)
    /\ ~IsFrame(df)
    /\ merge_log' = NoMerge
    /\ NextTicker(df)
    /\ UNCHANGED <<start_input, include_indices, error, start_date, df, fetched, requests>>

\* Lines 112-116: the treasury download, the inner join and the derived column.
\* With df None the join raises AttributeError, which nothing catches.
FetchTreasury ==
    /\ pc = "FETCH_TREASURY"
    /\ \E price_data \in YFData(TREASURY_BOND, start_date) :
         LET treasury_data == download_single_ticker(TREASURY_BOND, price_data)
         IN  /\ fetched' = [fetched EXCEPT ![TREASURY_BOND] = treasury_data]
             /\ requests' = Append(requests, TREASURY_BOND)
             /\ IF treasury_data.kind = "None"
                THEN /\ df' = df
                     /\ merge_log' = NoMerge
                     /\ snap' = snap
                     /\ pc' = "FETCH_SP100"
                     /\ error' = error
                ELSE IF ~IsFrame(df)
                THEN /\ df' = df
                     /\ merge_log' = NoMerge
                     /\ snap' = snap
                     /\ pc' = "raised"
                     /\ error' = "AttributeError"
                ELSE /\ df' = merge_treasury(df, treasury_data)
                     /\ merge_log' = [symbol |-> TREASURY_BOND, into_empty |-> empty(df)]
                     /\ snap' = [snap EXCEPT !.pct =
                                   [d \in Dates(df') |-> df'.cell[<<d, PCT_COLUMN>>]]]
                     /\ pc' = "FETCH_SP100"
                     /\ error' = error
    /\ UNCHANGED <<start_input, include_indices, start_date, i>>

\* Lines 119-121: the S&P 100 download and its inner join.
FetchSP100 ==
    /\ pc = "FETCH_SP100"
    /\ \E price_data \in YFData(SP100_INDEX, start_date) :
         LET sp100_data == download_single_ticker(SP100_INDEX, price_data)
         IN  /\ fetched' = [fetched EXCEPT ![SP100_INDEX] = sp100_data]
             /\ requests' = Append(requests, SP100_INDEX)
             /\ IF sp100_data.kind = "None"
                THEN /\ df' = df
                     /\ merge_log' = NoMerge
                     /\ pc' = "FINALIZE"
                     /\ error' = error
                ELSE IF ~IsFrame(df)
                THEN /\ df' = df
                     /\ merge_log' = NoMerge
                     /\ pc' = "raised"
                     /\ error' = "AttributeError"
                ELSE /\ df' = merge_sp100(df, sp100_data)
                     /\ merge_log' = [symbol |-> SP100_INDEX, into_empty |-> empty(df)]
                     /\ pc' = "FINALIZE"
                     /\ error' = error
    /\ UNCHANGED <<start_input, include_indices, start_date, i, snap>>

\* Line 123 with df a DataFrame: sort by date and return.
Return ==
    /\ pc = "FINALIZE"
    /\ IsFrame(df)
    /\ df' = sort_index(df)
    /\ pc' = "returned"
    /\ UNCHANGED <<start_input, include_indices, error, start_date, i, fetched, requests,
                   merge_log, snap>>

\* Line 123 with df None: None.sort_index() raises AttributeError.
ReturnRaise ==
    /\ pc = "FINALIZE"
    /\ ~IsFrame(df)
    /\ error' = "AttributeError"
    /\ pc' = "raised"
    /\ UNCHANGED <<start_input, include_indices, start_date, i, df, fetched, requests,
                   merge_log, snap>>

Next ==
    \/ ResolveOk
    \/ ResolveRaise
    \/ FetchTicker
    \/ SkipTicker
    \/ FetchTreasury
    \/ FetchSP100
    \/ Return
    \/ ReturnRaise

Spec == Init /\ [][Next]_vars

\* ------------------------------------------------------------ properties
\* Date resolution succeeded: the call got past line 144.
Resolved == pc # "RESOLVE" /\ ~(pc = "raised" /\ error = "ValueError")

Failed(s) == fetched[s].kind = "None"

\* The fetch of s returned a series with at least one row.
Delivered(s) == fetched[s].kind = "DataFrame" /\ ~empty(fetched[s])

\* The call is between two steps of load_all_data (a merge step may just have run).
InPipeline == pc \in {"FETCH_UNIVERSE", "FETCH_TREASURY", "FETCH_SP100", "FINALIZE"}

\* Number of business days (Monday to Friday) in [a, b).
BusinessDays(a, b) == Cardinality({d \in a..(b - 1) : weekday(d) < 5})

RatEq(a, b) == a[1] * b[2] = b[1] * a[2]

IsPrefix(s, t) == Len(s) <= Len(t) /\ \A k \in 1..Len(s) : s[k] = t[k]

ExpectedRequests ==
    tickers \o (IF include_indices THEN <<TREASURY_BOND, SP100_INDEX>> ELSE <<>>)

\* C1 (as claimed): whenever the fetch of a universe symbol X has failed, the run
\* does not raise, and the returned table has no column X and has a column for
\* every other universe symbol whose fetch delivered a non-empty series.
C1_FetchIsolation ==
    \A X \in Range(tickers) :
        Failed(X) =>
            /\ pc # "raised"
            /\ pc = "returned" =>
                 /\ X \notin Range(df.columns)
                 /\ \A s \in Range(tickers) \ {X} : Delivered(s) => s \in Range(df.columns)

\* C2 (as claimed): once date resolution has succeeded the run never raises, and
\* a run in which every fetch failed returns an empty table.
C2_BestEffortTermination ==
    /\ Resolved => pc # "raised"
    /\ (pc = "returned" /\ \A s \in Symbols : fetched[s].kind # "DataFrame")
         => (IsFrame(df) /\ empty(df))

\* C3 (as claimed): for an integer lookback n >= 0 the resolved start date is
\* <= END_DATE and exactly n business days (Monday to Friday) before END_DATE.
C3_LookbackResolution ==
    (start_input.type = "int" /\ Resolved) =>
        /\ start_date <= END_DATE
        /\ BusinessDays(start_date, END_DATE) = start_input.value[1]

\* C4: with a start_input that is neither a date nor an integer the call raises
\* ValueError during RESOLVE: it never leaves RESOLVE otherwise, no fetch is
\* issued and no table is returned.
C4_InvalidStartFailsFast ==
    start_input.type \in {"float", "NoneType"} =>
        /\ pc \in {"RESOLVE", "raised"}
        /\ pc = "raised" => error = "ValueError"
        /\ requests = <<>>
        /\ \A s \in Symbols : fetched[s] = Unfetched
        /\ df = None

C4_Witness ==
    /\ start_input.type \in {"float", "NoneType"}
    /\ pc = "raised"
    /\ error = "ValueError"

\* C5: with include_indices false and every universe fetch delivering a non-empty
\* series, the returned table has exactly the union of the fetched dates, one
\* column per universe symbol, each cell holding the fetched close or NaN (never
\* zero) where the symbol has no value, and its rows ascend by date.
C5_OuterJoinCompleteness ==
    (pc = "returned" /\ ~include_indices /\ \A s \in Range(tickers) : Delivered(s)) =>
        /\ Dates(df) = UNION {Dates(fetched[s]) : s \in Range(tickers)}
        /\ df.columns = tickers
        /\ Ascending(df.index)
        /\ \A d \in Dates(df) : \A s \in Range(tickers) :
             /\ df.cell[<<d, s>>] =
                   IF d \in Dates(fetched[s]) THEN fetched[s].cell[<<d, s>>] ELSE NaN
             /\ d \notin Dates(fetched[s]) => df.cell[<<d, s>>] # Num(0)

C5_Witness ==
    /\ pc = "returned" /\ ~include_indices
    /\ \A s \in Range(tickers) : Delivered(s)
    /\ \E s, t \in Range(tickers) :
         /\ s # t
         /\ Dates(fetched[s]) \cap Dates(fetched[t]) = {}
         /\ \E d \in Dates(df) : df.cell[<<d, s>>] = NaN /\ df.cell[<<d, t>>] # NaN

\* Dates a reference series lets through: its own if its fetch succeeded, all
\* dates of the equity table if it failed.
ReferenceDates(s) ==
    IF fetched[s].kind = "DataFrame" THEN Dates(fetched[s]) ELSE snap.universe

\* C6: with include_indices true and a non-empty equity table with dates E, the
\* returned table's dates are E intersected with the dates of each reference
\* series whose fetch succeeded.
C6_InnerJoinRestriction ==
    (pc = "returned" /\ include_indices /\ snap.universe # {}) =>
        Dates(df) = (snap.universe \cap ReferenceDates(TREASURY_BOND))
                        \cap ReferenceDates(SP100_INDEX)

C6_Witness ==
    /\ pc = "returned" /\ include_indices
    /\ Delivered(TREASURY_BOND)
    /\ Dates(fetched[TREASURY_BOND]) \subseteq snap.universe
    /\ Dates(fetched[TREASURY_BOND]) # snap.universe
    /\ Failed(SP100_INDEX)
    /\ Dates(df) = Dates(fetched[TREASURY_BOND])

\* C7: right after the treasury series has been inner-merged, the derived column
\* at row i (0-based) is (value[i] - value[i-20]) / value[i-20] of the ^TYX
\* column for i >= 20 and NaN (not zero) for i < 20.
C7_RollingFeature ==
    (pc = "FETCH_SP100" /\ fetched[TREASURY_BOND].kind = "DataFrame") =>
        \A k \in 1..Len(df.index) :
            LET value == Column(df, TREASURY_BOND)
                derived == df.cell[<<df.index[k], PCT_COLUMN>>]
            IN  IF k - 1 >= Window
                THEN /\ derived # NaN
                     /\ RatEq(derived, <<value[k][1] - value[k - Window][1],
                                         value[k - Window][1]>>)
                ELSE derived = NaN

C7_Witness ==
    /\ pc = "FETCH_SP100"
    /\ fetched[TREASURY_BOND].kind = "DataFrame"
    /\ Len(df.index) > Window + 1
    /\ df.cell[<<df.index[Window + 1], PCT_COLUMN>>] # NaN
    /\ df.cell[<<df.index[Window], PCT_COLUMN>>] = NaN

\* C8 (as claimed): the fetch requests issued are always a prefix of the universe
\* symbols in order followed (if include_indices) by ^TYX and ^OEX, every loop
\* iteration issues its fetch, and a run that resolved its date ends with the
\* whole sequence issued.
C8_FetchSequence ==
    /\ IsPrefix(requests, ExpectedRequests)
    /\ pc = "FETCH_UNIVERSE" => Len(requests) = i - 1
    /\ (Resolved /\ pc \in {"returned", "raised"}) => requests = ExpectedRequests

\* C9 (as claimed): after any merge step, outer or inner, that found the table
\* empty and a successfully fetched series, the table is exactly that series.
C9_EmptyTableMergeRule ==
    (InPipeline /\ merge_log.into_empty) =>
        /\ df.index = fetched[merge_log.symbol].index
        /\ \A d \in Dates(df) :
             df.cell[<<d, merge_log.symbol>>] = fetched[merge_log.symbol].cell[<<d, merge_log.symbol>>]

\* C9 (amended): after a universe (outer) merge step that found the table empty
\* and a successfully fetched series, the table is exactly that series; after a
\* reference (inner) merge step that found the table empty, the table has no rows.
C9_EmptyTableMergeRuleAmended ==
    (InPipeline /\ merge_log.into_empty) =>
        IF merge_log.symbol \in Range(tickers)
        THEN df = fetched[merge_log.symbol]
        ELSE Len(df.index) = 0

\* The second ticker's series arrives while the table is an empty DataFrame that
\* already has a column (the first ticker's series had no rows).
C9_Witness ==
    /\ InPipeline
    /\ merge_log.into_empty
    /\ merge_log.symbol = tickers[2]
    /\ fetched[tickers[1]].kind = "DataFrame"
    /\ ~empty(df)

\* C10: in a returned table built with the treasury series, the derived column
\* holds at every surviving date the value line 116 computed for that date,
\* whatever the S&P 100 merge removed.
C10_DerivedColumnFrozen ==
    (pc = "returned" /\ include_indices /\ fetched[TREASURY_BOND].kind = "DataFrame") =>
        \A d \in Dates(df) : df.cell[<<d, PCT_COLUMN>>] = snap.pct[d]

C10_Witness ==
    /\ pc = "returned" /\ include_indices
    /\ fetched[TREASURY_BOND].kind = "DataFrame"
    /\ Cardinality(DOMAIN snap.pct) > Len(df.index)
    /\ Len(df.index) > 0
    /\ df.index[1] # fetched[TREASURY_BOND].index[1]
    /\ \E d \in Dates(df) : df.cell[<<d, PCT_COLUMN>>] # NaN

====
